---- MODULE Spec2Model ----
(***************************************************************************)
(* Model of the preset store of the ExpandedPresets plugin                 *)
(* (src/src/PresetManager.cpp, src/src/PresetTypes.h) and of the plugin    *)
(* entry points that drive it (src/src/ExpandedPresetsPlugin.cpp).         *)
(*                                                                         *)
(* Text is a sequence of one-character strings, a file is a sequence of    *)
(* lines (what std::getline hands to the parser).  A colour channel is an  *)
(* integer number of units of 1/255000, so that 1.0 = Unit, one thousandth *)
(* (the serialised precision) = 255 units and a division by 255.0 of a     *)
(* value with three decimals is exact.                                     *)
(***************************************************************************)
EXTENDS Integers, Sequences, FiniteSets, TLC

\* ------------------------------------------------------------------ bounds
\* Largest collection an upsert or a catalog import may grow the store to.
MaxPresets == 2
\* Longest line of a generated presets.data.
MaxVanillaLineLen == 5
\* Longest line of a generated expanded_presets.cfg.
MaxStorageLineLen == 3

\* ------------------------------------------------------------ colour units
\* 1.0f expressed in channel units.
Unit == 255000
\* One thousandth (std::setprecision(3)) in channel units; also the 255.0f divisor.
Milli == 255

\* --------------------------------------------------------------- characters
WhitespaceChars == {" ", "\t", "\r", "\n"}

Digits == <<"0", "1", "2", "3", "4", "5", "6", "7", "8", "9">>

IsDigit(c) == \E d \in 1..10 : Digits[d] = c

DigitValue(c) == (CHOOSE d \in 1..10 : Digits[d] = c) - 1

RECURSIVE Pow10(_)
Pow10(n) == IF n = 0 THEN 1 ELSE 10 * Pow10(n - 1)

\* ------------------------------------------------------------------- text
\* std::string::find_first_not_of(" \t\r\n"); 0 stands for npos.
FindFirstNotOf(text) ==
    IF \E i \in 1..Len(text) : text[i] \notin WhitespaceChars
    THEN CHOOSE i \in 1..Len(text) :
             /\ text[i] \notin WhitespaceChars
             /\ \A j \in 1..(i - 1) : text[j] \in WhitespaceChars
    ELSE 0

\* std::string::find_last_not_of(" \t\r\n"); 0 stands for npos.
FindLastNotOf(text) ==
    IF \E i \in 1..Len(text) : text[i] \notin WhitespaceChars
    THEN CHOOSE i \in 1..Len(text) :
             /\ text[i] \notin WhitespaceChars
             /\ \A j \in (i + 1)..Len(text) : text[j] \in WhitespaceChars
    ELSE 0

TrimWhitespace(text) ==
    LET first == FindFirstNotOf(text)
        last == FindLastNotOf(text)
    IN IF first = 0 THEN << >> ELSE SubSeq(text, first, last)

\* Position of the first occurrence of character c in text, 0 when there is none.
FindChar(text, c) ==
    IF \E i \in 1..Len(text) : text[i] = c
    THEN CHOOSE i \in 1..Len(text) : text[i] = c /\ \A j \in 1..(i - 1) : text[j] # c
    ELSE 0

\* The loop `while (std::getline(stream, token, delim)) tokens.push_back(token)`:
\* an exhausted stream yields no further token, so a text ending with the
\* delimiter yields no trailing empty token and the empty text yields none.
RECURSIVE SplitOn(_, _)
SplitOn(text, delim) ==
    IF Len(text) = 0 THEN << >>
    ELSE LET p == FindChar(text, delim)
         IN IF p = 0 THEN << text >>
            ELSE << SubSeq(text, 1, p - 1) >> \o SplitOn(SubSeq(text, p + 1, Len(text)), delim)

TokenizeLine(line) == SplitOn(line, "|")

\* ----------------------------------------------------------- colour codec
\* Length of the leading run of decimal digits of text.
DigitRun(text) ==
    IF \E i \in 1..Len(text) : ~IsDigit(text[i])
    THEN (CHOOSE i \in 1..Len(text) : ~IsDigit(text[i]) /\ \A j \in 1..(i - 1) : IsDigit(text[j])) - 1
    ELSE Len(text)

\* The number a sequence of decimal digits denotes (0 for the empty sequence).
RECURSIVE NumberOf(_)
NumberOf(digits) ==
    IF Len(digits) = 0 THEN 0
    ELSE 10 * NumberOf(SubSeq(digits, 1, Len(digits) - 1)) + DigitValue(digits[Len(digits)])

\* std::stof on a decimal literal: leading whitespace is skipped, then an
\* optional sign, digits, an optional point and digits; text after the number
\* is ignored.  valid = FALSE is the std::invalid_argument case (no digit).
\* The value is in channel units, truncated to a whole unit.  Exponents,
\* hexadecimal literals, "inf" and "nan" are outside the model's alphabet.
\* The digits part: nInt digits, and nFrac digits after a point.
StofNumber(u, nInt, nFrac) ==
    [valid |-> nInt + nFrac > 0,
     value |-> NumberOf(SubSeq(u, 1, nInt)) * Unit
               + (NumberOf(SubSeq(u, nInt + 2, nInt + 1 + nFrac)) * Unit) \div Pow10(nFrac)]

\* Length of the digit run after a point at position nInt + 1, if any.
FractionRun(u, nInt) ==
    IF Len(u) > nInt /\ u[nInt + 1] = "." THEN DigitRun(SubSeq(u, nInt + 2, Len(u))) ELSE 0

StofFraction(u, nInt) == StofNumber(u, nInt, FractionRun(u, nInt))

StofUnsigned(u) == StofFraction(u, DigitRun(u))

StofNegated(parsed) == [valid |-> parsed.valid, value |-> 0 - parsed.value]

StofSigned(t) ==
    IF Len(t) > 0 /\ t[1] = "-" THEN StofNegated(StofUnsigned(Tail(t)))
    ELSE IF Len(t) > 0 /\ t[1] = "+" THEN StofUnsigned(Tail(t))
    ELSE StofUnsigned(t)

SkipLeadingWhitespace(text, first) ==
    IF first = 0 THEN << >> ELSE SubSeq(text, first, Len(text))

Stof(component) == StofSigned(SkipLeadingWhitespace(component, FindFirstNotOf(component)))

\* try { value = std::stof(component); } catch (...) { value = 0.0f; }
StofOrZero(parsed) == IF parsed.valid THEN parsed.value ELSE 0

\* value = std::max(0.0f, value)
ClampAtZero(value) == IF value < 0 THEN 0 ELSE value

\* normalized = value > 1.0f ? value / 255.0f : value
ScaleInference(value) == IF value > Unit THEN value \div Milli ELSE value

\* One iteration of the component loop of ParseColorToken.
NormalizeComponent(component) == ScaleInference(ClampAtZero(StofOrZero(Stof(component))))

\* The channel the loop leaves at index: 0.0f when the token has no such component.
ColorChannel(components, index) ==
    IF Len(components) > index THEN NormalizeComponent(components[index + 1]) ELSE 0

ColorOfComponents(components) ==
    [r |-> ColorChannel(components, 0),
     g |-> ColorChannel(components, 1),
     b |-> ColorChannel(components, 2)]

ParseColorToken(token) == ColorOfComponents(SplitOn(token, ","))

\* Decimal text of a natural number.
RECURSIVE NatText(_)
NatText(n) ==
    IF n < 10 THEN << Digits[n + 1] >>
    ELSE NatText(n \div 10) \o << Digits[(n % 10) + 1] >>

\* operator<< of a non-negative float under std::fixed << std::setprecision(3):
\* the value rounded to the nearest thousandth (no tie exists: Milli is odd).
FixedText(channel) ==
    LET k == (2 * channel + Milli) \div (2 * Milli)
    IN NatText(k \div 1000)
       \o << ".", Digits[((k \div 100) % 10) + 1], Digits[((k \div 10) % 10) + 1], Digits[(k % 10) + 1] >>

SerializeColorToken(color) ==
    FixedText(color.r) \o << "," >> \o FixedText(color.g) \o << "," >> \o FixedText(color.b)

\* ---------------------------------------------------------------- records
\* PresetCustomization's default member initialisers.
DefaultCustomization ==
    [primaryColor |-> [r |-> 45900, g |-> 45900, b |-> 45900],
     accentColor |-> [r |-> 229500, g |-> 89250, b |-> 38250],
     carLabel |-> << "O", "c", "t", "a", "n", "e" >>,
     decalLabel |-> << "N", "o", "n", "e" >>,
     wheelsLabel |-> << "O", "E", "M" >>,
     paintFinishMatte |-> FALSE,
     paintFinishPearlescent |-> FALSE]

\* A default-constructed CustomPreset with the given name and loadout code.
CustomPreset(name, loadoutCode) ==
    [name |-> name, loadoutCode |-> loadoutCode, customization |-> DefaultCustomization]

\* ------------------------------------------------------------ collection
\* 0-based index of the first record named name; Len(ps) when there is none.
FindPresetIndex(ps, name) ==
    IF \E i \in 1..Len(ps) : ps[i].name = name
    THEN (CHOOSE i \in 1..Len(ps) : ps[i].name = name /\ \A j \in 1..(i - 1) : ps[j].name # name) - 1
    ELSE Len(ps)

\* A plausible slip: the lookup is skipped and the record always appended.
AddOrUpdateAlwaysAppends(ps, preset) == Append(ps, preset)

\* A plausible slip: an existing record is erased and the new one appended,
\* so an update loses its position.
AddOrUpdateMovesToEnd(ps, preset) ==
    LET index == FindPresetIndex(ps, preset.name)
    IN IF index >= Len(ps)
       THEN Append(ps, preset)
       ELSE Append(SubSeq(ps, 1, index) \o SubSeq(ps, index + 2, Len(ps)), preset)

\* A plausible slip: a record whose name is already stored is ignored
\* instead of replacing the stored one.
AddOrUpdateKeepsFirst(ps, preset) ==
    LET index == FindPresetIndex(ps, preset.name)
    IN IF index >= Len(ps)
       THEN Append(ps, preset)
       ELSE ps

AddOrUpdatePreset(ps, preset) ==
    LET index == FindPresetIndex(ps, preset.name)
    IN IF index >= Len(ps)
       THEN Append(ps, preset)
       ELSE [ps EXCEPT ![index + 1] = preset]

\* A plausible slip: the "not found" guard is missing, so the sentinel index
\* erases the last record.
RemovePresetUnguarded(ps, name) ==
    LET index == FindPresetIndex(ps, name)
    IN IF Len(ps) = 0 THEN ps
       ELSE IF index >= Len(ps) THEN SubSeq(ps, 1, Len(ps) - 1)
       ELSE SubSeq(ps, 1, index) \o SubSeq(ps, index + 2, Len(ps))

RemovePreset(ps, name) ==
    LET index == FindPresetIndex(ps, name)
    IN IF index >= Len(ps)
       THEN ps
       ELSE SubSeq(ps, 1, index) \o SubSeq(ps, index + 2, Len(ps))

\* Upserts the records of a sequence, in order, into ps.
RECURSIVE AddAll(_, _)
AddAll(ps, records) ==
    IF Len(records) = 0 THEN ps
    ELSE AddAll(AddOrUpdatePreset(ps, Head(records)), Tail(records))

\* ------------------------------------------------------- persisted format
\* tokens[7] == "1" || tokens[7] == "true" || tokens[7] == "matte" (and the
\* same for "pearlescent").
IsTrueToken(token, word) ==
    token = << "1" >> \/ token = << "t", "r", "u", "e" >> \/ token = word

\* The customization LoadFromStorage builds from n tokens: each token from
\* the third on overrides one more default.
CustomizationOfTokens(tokens, n, d) ==
    [primaryColor |-> IF n >= 3 THEN ParseColorToken(tokens[3]) ELSE d.primaryColor,
     accentColor |-> IF n >= 4 THEN ParseColorToken(tokens[4]) ELSE d.accentColor,
     carLabel |-> IF n >= 5 THEN TrimWhitespace(tokens[5]) ELSE d.carLabel,
     decalLabel |-> IF n >= 6 THEN TrimWhitespace(tokens[6]) ELSE d.decalLabel,
     wheelsLabel |-> IF n >= 7 THEN TrimWhitespace(tokens[7]) ELSE d.wheelsLabel,
     paintFinishMatte |->
       IF n >= 8 THEN IsTrueToken(tokens[8], << "m", "a", "t", "t", "e" >>)
       ELSE d.paintFinishMatte,
     paintFinishPearlescent |->
       IF n >= 9
       THEN IsTrueToken(tokens[9], << "p", "e", "a", "r", "l", "e", "s", "c", "e", "n", "t" >>)
       ELSE d.paintFinishPearlescent]

\* The records (none or one) the tokens of a line yield.
PresetOfTokens(tokens) ==
    IF Len(tokens) < 2 THEN << >>
    ELSE << [name |-> TrimWhitespace(tokens[1]),
             loadoutCode |-> TrimWhitespace(tokens[2]),
             customization |-> CustomizationOfTokens(tokens, Len(tokens), DefaultCustomization)] >>

\* The records a trimmed line yields: none for a blank or comment line.
ParseTrimmedLine(line) ==
    IF Len(line) = 0 \/ line[1] = "#" THEN << >>
    ELSE PresetOfTokens(TokenizeLine(line))

\* The body of LoadFromStorage's line loop: the records (none or one) a raw
\* line of the persisted file yields.
ParseStorageLine(rawLine) == ParseTrimmedLine(TrimWhitespace(rawLine))

\* A plausible slip: a line that yields no record ends the loop (break for
\* continue), so the lines after it are lost.
RECURSIVE ParseStorageLinesUntilSkipped(_)
ParseStorageLinesUntilSkipped(lines) ==
    IF Len(lines) = 0 \/ Len(ParseStorageLine(Head(lines))) = 0 THEN << >>
    ELSE ParseStorageLine(Head(lines)) \o ParseStorageLinesUntilSkipped(Tail(lines))

\* The records of the lines of a persisted-format file, in file order.
RECURSIVE ParseStorageLines(_)
ParseStorageLines(lines) ==
    IF Len(lines) = 0 THEN << >>
    ELSE ParseStorageLine(Head(lines)) \o ParseStorageLines(Tail(lines))

\* The text one record contributes to the persisted file, newline included.
SerializePreset(preset) ==
    LET c == preset.customization
        Flag(b) == IF b THEN << "1" >> ELSE << "0" >>
    IN preset.name \o << "|" >> \o preset.loadoutCode \o << "|" >>
       \o SerializeColorToken(c.primaryColor) \o << "|" >>
       \o SerializeColorToken(c.accentColor) \o << "|" >>
       \o c.carLabel \o << "|" >> \o c.decalLabel \o << "|" >> \o c.wheelsLabel \o << "|" >>
       \o Flag(c.paintFinishMatte) \o << "|" >> \o Flag(c.paintFinishPearlescent)
       \o << "\n" >>

\* The text SaveToStorage streams into the truncated file.
RECURSIVE SerializePresets(_)
SerializePresets(ps) ==
    IF Len(ps) = 0 THEN << >>
    ELSE SerializePreset(Head(ps)) \o SerializePresets(Tail(ps))

\* A file's text as the lines std::getline(file, line) reads from it.
FileLines(text) == SplitOn(text, "\n")

\* --------------------------------------------------------- vanilla format
\* A plausible slip: find_first_of for find_last_of.
FindFirstDelimiter(line) ==
    IF \E i \in 1..Len(line) : line[i] \in {"\t", " "}
    THEN CHOOSE i \in 1..Len(line) :
             /\ line[i] \in {"\t", " "}
             /\ \A j \in 1..(i - 1) : line[j] \notin {"\t", " "}
    ELSE 0

\* std::string::find_last_of("\t "); 0 stands for npos.
FindLastDelimiter(line) ==
    IF \E i \in 1..Len(line) : line[i] \in {"\t", " "}
    THEN CHOOSE i \in 1..Len(line) :
             /\ line[i] \in {"\t", " "}
             /\ \A j \in (i + 1)..Len(line) : line[j] \notin {"\t", " "}
    ELSE 0

\* The body of RefreshFromVanillaPresets' line loop: the records (none or
\* one) a raw line of presets.data yields.
ParseVanillaLine(rawLine) ==
    LET line == TrimWhitespace(rawLine)
        delimiterPos == FindLastDelimiter(line)
        name == TrimWhitespace(SubSeq(line, 1, delimiterPos - 1))
        loadoutCode == TrimWhitespace(SubSeq(line, delimiterPos + 1, Len(line)))
    IN IF Len(line) = 0 \/ line[1] = "#" THEN << >>
       ELSE IF delimiterPos = 0 THEN << >>
       ELSE IF Len(name) = 0 \/ Len(loadoutCode) = 0 THEN << >>
       ELSE << CustomPreset(name, loadoutCode) >>

RECURSIVE ParseVanillaLines(_)
ParseVanillaLines(lines) ==
    IF Len(lines) = 0 THEN << >>
    ELSE ParseVanillaLine(Head(lines)) \o ParseVanillaLines(Tail(lines))

\* ------------------------------------------------------------------ state
VARIABLES
    presets,        \* PresetManager::presets
    storageExists,  \* whether expanded_presets.cfg exists at storageFilePath
    storageLines,   \* its lines
    last,           \* the operation that ran last: its arguments and how it ended
    vanillaLines,   \* the lines of presets.data (the program only reads it)
    selectedPresetIndex,  \* ExpandedPresetsPlugin::selectedPresetIndex
    editingPreset   \* ExpandedPresetsPlugin::editingPreset

vars == << presets, storageExists, storageLines, last, vanillaLines, selectedPresetIndex,
           editingPreset >>

\* The state the operations of PresetManager never touch: the vanilla file
\* and the fields of the plugin object.
outside == << vanillaLines, selectedPresetIndex, editingPreset >>

\* ----------------------------------------------------------------- inputs
NameA == << "a" >>
NamePipe == << "a", "|", "b" >>
NameAbsent == << "q" >>
CodeX == << "x" >>
CodeY == << "y" >>

\* A customization an editor can produce: every channel in [0,1], two of
\* them off the thousandth grid (0.0004 and 0.9996), one label empty.
EditedCustomization ==
    [primaryColor |-> [r |-> Unit, g |-> 100, b |-> 254900],
     accentColor |-> [r |-> 0, g |-> 127500, b |-> 38250],
     carLabel |-> << "F" >>,
     decalLabel |-> << >>,
     wheelsLabel |-> << "O", "E", "M" >>,
     paintFinishMatte |-> TRUE,
     paintFinishPearlescent |-> FALSE]

\* The records callers hand to AddOrUpdatePreset.
PresetInputs ==
    { CustomPreset(NameA, CodeX),
      [name |-> NameA, loadoutCode |-> CodeY, customization |-> EditedCustomization],
      [CustomPreset(NamePipe, CodeX) EXCEPT !.customization.paintFinishPearlescent = TRUE] }

\* The names callers hand to RemovePreset.
NameInputs == { NameA, NamePipe, NameAbsent }

\* The lines of presets.data (the program only reads it): a comment, a blank line, two records,
\* a name with an inner space before a two-space run, a line without
\* delimiter and a repeated name (tab-delimited).
VanillaFile ==
    << << "#", "c" >>,
       << " ", " " >>,
       << "a", " ", "x" >>,
       << "T", " ", "G", " ", " ", "y", "\r" >>,
       << "n" >>,
       << "a", "\t", "z" >> >>

\* expanded_presets.cfg as a user may have edited it while the game was
\* closed: a comment, a two-field line, a full line with 0-255 scale, out of
\* range, negative and unparsable colour components, and a one-field line.
EditedStorageFile ==
    << << "#", " ", "c" >>,
       << "a", "|", "x" >>,
       << "b", "|", "y", "|", "3", "0", "0", ",", "0", ".", "5", ",", "-", "1", "|",
          "1", "2", "8", ",", "q", "|", "C", "|", "|", " ", "W", "|", "t", "r", "u", "e", "|", "0" >>,
       << "z" >> >>

\* The lines of bakkesplugins_cars.cfg (the program only reads it): one name
\* the inputs also use, one new name.
CatalogFile ==
    << << "a", "|", "w" >>,
       << "c", "|", "x", "|", "0", ",", "0", ",", "1" >> >>

\* The valid records of the presets.data of VanillaFile, in file order.
VanillaRecords == ParseVanillaLines(VanillaFile)

\* The valid records of bakkesplugins_cars.cfg, in file order.
CatalogRecords == ParseStorageLines(CatalogFile)

\* How the environment lets a SaveToStorage call end: the file is written;
\* the std::ofstream cannot be opened; the storage directory is missing and
\* std::filesystem::create_directories fails.
SaveOutcomes == { "written", "open_failed", "dir_uncreatable" }

NoPreset == CustomPreset(<< >>, << >>)

\* The record of an operation: its name, its arguments (preset, name,
\* overwriteExisting), the collection size it started from, whether the file
\* it reads was opened, how its save ended ("none" when it does not save,
\* "ok", "failed" when the failure was logged, "raised"), whether an
\* exception left it, and the count it returned.
Last(op) ==
    [op |-> op, preset |-> NoPreset, name |-> << >>, overwriteExisting |-> FALSE,
     sizeBefore |-> Len(presets), opened |-> FALSE, write |-> "none", raised |-> FALSE,
     count |-> 0]

\* ------------------------------------------------------------------- init
\* The state after PresetManager's constructor: no record in memory, the
\* storage file absent (a first run) or as the user left it.
Init ==
    /\ presets = << >>
    /\ \E f \in { [e |-> FALSE, l |-> << >>], [e |-> TRUE, l |-> EditedStorageFile] } :
           storageExists = f.e /\ storageLines = f.l
    /\ last = Last("constructor")
    /\ vanillaLines = VanillaFile
    /\ selectedPresetIndex = -1
    /\ editingPreset = NoPreset

\* ------------------------------------------------------------- operations
\* EnsureStorageDirectory: create_directories is called without an
\* std::error_code, so a directory that cannot be created throws
\* std::filesystem::filesystem_error.
EnsureStorageDirectoryThrows(env) == env = "dir_uncreatable"

\* What a SaveToStorage call leaves on disk.
StorageAfterSave(ps, env) ==
    IF EnsureStorageDirectoryThrows(env) \/ env = "open_failed"
    THEN [exists |-> storageExists, lines |-> storageLines]
    ELSE [exists |-> TRUE, lines |-> FileLines(SerializePresets(ps))]

\* How a SaveToStorage call ends: "raised", "failed" (logged) or "ok".
WriteResult(env) ==
    IF EnsureStorageDirectoryThrows(env) THEN "raised"
    ELSE IF env = "open_failed" THEN "failed"
    ELSE "ok"

\* A plausible slip: a failed save drops the in-memory records.
SaveToStorageDropsRecords(env) ==
    /\ presets' = IF WriteResult(env) = "ok" THEN presets ELSE << >>
    /\ storageExists' = StorageAfterSave(presets, env).exists
    /\ storageLines' = StorageAfterSave(presets, env).lines
    /\ last' = [Last("SaveToStorage") EXCEPT !.write = WriteResult(env),
                                             !.raised = EnsureStorageDirectoryThrows(env)]
    /\ UNCHANGED outside

SaveToStorage(env) ==
    /\ storageExists' = StorageAfterSave(presets, env).exists
    /\ storageLines' = StorageAfterSave(presets, env).lines
    /\ last' = [Last("SaveToStorage") EXCEPT !.write = WriteResult(env),
                                             !.raised = EnsureStorageDirectoryThrows(env)]
    /\ UNCHANGED << presets, outside >>

\* A plausible slip: the presets.clear() at the top is missing.
VanillaPresetsMerged(ps, canOpen) ==
    IF ~canOpen THEN ps
    ELSE AddAll(ps, ParseVanillaLines(vanillaLines))

\* The collection RefreshFromVanillaPresets leaves; canOpen is whether
\* presets.data exists and its std::ifstream opens.
VanillaPresets(ps, canOpen) ==
    LET cleared == SubSeq(ps, 1, 0)
    IN IF ~canOpen THEN cleared
       ELSE AddAll(cleared, ParseVanillaLines(vanillaLines))

RefreshFromVanillaPresets(canOpen) ==
    /\ presets' = VanillaPresets(presets, canOpen)
    /\ last' = [Last("RefreshFromVanillaPresets") EXCEPT !.opened = canOpen]
    /\ UNCHANGED << storageExists, storageLines, outside >>

\* A plausible slip: the presets.clear() at the top is missing.
StoredPresetsMerged(ps, lines) == AddAll(ps, ParseStorageLines(lines))

\* The collection LoadFromStorage builds from an opened storage file.
StoredPresets(ps, lines) ==
    LET cleared == SubSeq(ps, 1, 0)
    IN AddAll(cleared, ParseStorageLines(lines))

\* canRead is whether the std::ifstream of an existing storage file opens;
\* canOpen and env are the environment of the fallback's vanilla import and
\* save (not consulted when the file opens).
LoadFromStorage(canRead, canOpen, env) ==
    IF storageExists /\ canRead
    THEN /\ presets' = StoredPresets(presets, storageLines)
         /\ last' = [Last("LoadFromStorage") EXCEPT !.opened = TRUE]
         /\ UNCHANGED << storageExists, storageLines, outside >>
    ELSE /\ presets' = VanillaPresets(SubSeq(presets, 1, 0), canOpen)
         /\ storageExists' = StorageAfterSave(presets', env).exists
         /\ storageLines' = StorageAfterSave(presets', env).lines
         /\ last' = [Last("LoadFromStorage") EXCEPT !.write = WriteResult(env),
                                                    !.raised = EnsureStorageDirectoryThrows(env)]
         /\ UNCHANGED outside

CallAddOrUpdatePreset(preset) ==
    /\ Len(AddOrUpdatePreset(presets, preset)) <= MaxPresets
    /\ presets' = AddOrUpdatePreset(presets, preset)
    /\ last' = [Last("AddOrUpdatePreset") EXCEPT !.preset = preset]
    /\ UNCHANGED << storageExists, storageLines, outside >>

CallRemovePreset(name) ==
    /\ presets' = RemovePreset(presets, name)
    /\ last' = [Last("RemovePreset") EXCEPT !.name = name]
    /\ UNCHANGED << storageExists, storageLines, outside >>

\* A plausible slip: the overwrite flag is ignored and every record applied.
RECURSIVE ImportAlwaysOverwrites(_, _, _)
ImportAlwaysOverwrites(ps, records, overwriteExisting) ==
    IF Len(records) = 0 THEN [presets |-> ps, count |-> 0]
    ELSE LET rest == ImportAlwaysOverwrites(AddOrUpdatePreset(ps, Head(records)), Tail(records),
                                            overwriteExisting)
         IN [presets |-> rest.presets, count |-> rest.count + 1]

\* PresetManager::ImportFromFile on the records of an existing file: a record
\* whose name is in the store is applied only under overwriteExisting, any
\* other is added; count is the number of records applied.
RECURSIVE ImportFromFile(_, _, _)
ImportFromFile(ps, records, overwriteExisting) ==
    IF Len(records) = 0 THEN [presets |-> ps, count |-> 0]
    ELSE LET found == FindPresetIndex(ps, Head(records).name) < Len(ps)
             apply == ~found \/ overwriteExisting
             rest == ImportFromFile(IF apply THEN AddOrUpdatePreset(ps, Head(records)) ELSE ps,
                                    Tail(records), overwriteExisting)
         IN [presets |-> rest.presets, count |-> rest.count + (IF apply THEN 1 ELSE 0)]

\* ResetEditingPreset: the form gets an empty name, an empty loadout code and
\* the default customization.
ResetEditingPreset == NoPreset

\* catalogExists is std::filesystem::exists(catalogPath).  An import that
\* applied a record clears the selection and resets the form.
ImportBakkesPluginsCatalog(catalogExists, overwriteExisting) ==
    LET imported == ImportFromFile(presets, CatalogRecords, overwriteExisting)
    IN IF ~catalogExists
       THEN /\ last' = [Last("ImportBakkesPluginsCatalog") EXCEPT !.overwriteExisting = overwriteExisting]
            /\ UNCHANGED << presets, storageExists, storageLines, outside >>
       ELSE /\ Len(imported.presets) <= MaxPresets
            /\ presets' = imported.presets
            /\ last' = [Last("ImportBakkesPluginsCatalog") EXCEPT !.overwriteExisting = overwriteExisting,
                                                                  !.opened = TRUE,
                                                                  !.count = imported.count]
            /\ selectedPresetIndex' = IF imported.count > 0 THEN -1 ELSE selectedPresetIndex
            /\ editingPreset' = IF imported.count > 0 THEN ResetEditingPreset ELSE editingPreset
            /\ UNCHANGED << storageExists, storageLines, vanillaLines >>

Next ==
    \/ \E env \in SaveOutcomes : SaveToStorage(env)
    \/ \E canOpen \in BOOLEAN : RefreshFromVanillaPresets(canOpen)
    \/ \E canRead \in (IF storageExists THEN BOOLEAN ELSE {FALSE}) :
           \E canOpen \in (IF canRead THEN {TRUE} ELSE BOOLEAN) :
               \E env \in (IF canRead THEN {"written"} ELSE SaveOutcomes) :
                   LoadFromStorage(canRead, canOpen, env)
    \/ \E preset \in PresetInputs : CallAddOrUpdatePreset(preset)
    \/ \E name \in NameInputs : CallRemovePreset(name)
    \/ \E catalogExists \in BOOLEAN, overwriteExisting \in BOOLEAN :
           ImportBakkesPluginsCatalog(catalogExists, overwriteExisting)

Spec == Init /\ [][Next]_vars

\* ------------------------------------------------- generated file contents
\* Every text of at most n characters drawn from chars.
RECURSIVE TextsUpTo(_, _)
TextsUpTo(chars, n) ==
    IF n = 0 THEN { << >> }
    ELSE LET shorter == TextsUpTo(chars, n - 1)
         IN shorter \cup { Append(t, c) : t \in shorter, c \in chars }

\* Lines of a presets.data: a name character, the two delimiters, a
\* whitespace character that is no delimiter, the comment mark.
VanillaLineInputs == TextsUpTo({ "a", " ", "\t", "\r", "#" }, MaxVanillaLineLen)

\* Lines of an expanded_presets.cfg: two name characters, the field
\* delimiter, whitespace, the comment mark.
StorageLineInputs == TextsUpTo({ "a", "b", "|", " ", "#" }, MaxStorageLineLen)

\* Lines that follow or surround a generated one: valid records of two
\* names, a repeated name with other values, a one-field line, a blank line.
NeighbourLines ==
    { << "a", "|", "a" >>, << "b", "|", "a" >>, << "a", "|", "b" >>, << "b" >>, << " " >> }

\* The persisted files a load is run on: every one-line file, every
\* generated line before or after a neighbour, every three neighbours.
StorageFileInputs ==
    { << l >> : l \in StorageLineInputs }
    \cup { << l, m >> : l \in StorageLineInputs, m \in NeighbourLines }
    \cup { << m, l >> : l \in StorageLineInputs, m \in NeighbourLines }
    \cup { << l, m, n >> : l \in NeighbourLines, m \in NeighbourLines, n \in NeighbourLines }

\* The state after construction with generated files on disk: a generated
\* presets.data on a first run, or a generated expanded_presets.cfg.
FormatInit ==
    /\ presets = << >>
    /\ last = Last("constructor")
    /\ selectedPresetIndex = -1
    /\ editingPreset = NoPreset
    /\ \/ /\ storageExists = FALSE
          /\ storageLines = << >>
          /\ vanillaLines \in { << l >> : l \in VanillaLineInputs }
       \/ /\ storageExists = TRUE
          /\ storageLines \in StorageFileInputs
          /\ vanillaLines = VanillaFile

\* The two operations that parse a file.
FormatNext ==
    \/ \E canOpen \in BOOLEAN : RefreshFromVanillaPresets(canOpen)
    \/ \E canRead \in (IF storageExists THEN BOOLEAN ELSE {FALSE}) :
           \E canOpen \in (IF canRead THEN {TRUE} ELSE BOOLEAN) :
               \E env \in (IF canRead THEN {"written"} ELSE SaveOutcomes) :
                   LoadFromStorage(canRead, canOpen, env)

FormatSpec == FormatInit /\ [][FormatNext]_vars

\* ------------------------------------------------------------ the plugin
\* presetManager is set: onLoad has run.
Loaded == last.op # "constructor"

\* What the user may have typed into the form when a button is clicked: a
\* name without loadout code, a code without name, name "a" with another
\* code, a new name.
FormInputs ==
    { CustomPreset(NameA, << >>),
      CustomPreset(<< >>, CodeX),
      CustomPreset(NameA, << "w" >>),
      CustomPreset(<< "d" >>, CodeX) }

\* The expanded_presets.cfg of an earlier session: two records, the second
\* with a primary colour.
SessionStorageFile ==
    << << "a", "|", "x" >>,
       << "c", "|", "x", "|", "0", ",", "0", ",", "1" >> >>

\* A presets.data of a comment and one record.
SessionVanillaFile ==
    << << "#", "c" >>,
       << "a", " ", "x" >> >>

\* The state after the plugin's construction (presetManager not yet set):
\* nothing selected, a default-constructed form, the storage file absent (a
\* first run) or as the earlier session left it.
PluginInit ==
    /\ presets = << >>
    /\ \E f \in { [e |-> FALSE, l |-> << >>], [e |-> TRUE, l |-> SessionStorageFile] } :
           storageExists = f.e /\ storageLines = f.l
    /\ last = Last("constructor")
    /\ vanillaLines = SessionVanillaFile
    /\ selectedPresetIndex = -1
    /\ editingPreset = NoPreset

\* onLoad: LoadFromStorage on the new PresetManager, then
\* ResetEditingPreset, which leaves the default-constructed form as it is.
onLoad(canRead, canOpen, env) ==
    /\ ~Loaded
    /\ LoadFromStorage(canRead, canOpen, env)
    /\ editingPreset' = ResetEditingPreset

\* OnClose, onUnload and the "Save all" button: SaveToStorage.
SaveAll(env) ==
    /\ Loaded
    /\ SaveToStorage(env)

\* ImGui::InputText, Checkbox and ColorEdit3 write into editingPreset.
EditForm(preset) ==
    /\ Loaded
    /\ editingPreset' = preset
    /\ last' = Last("EditForm")
    /\ UNCHANGED << presets, storageExists, storageLines, vanillaLines, selectedPresetIndex >>

\* A click on row index of the preset list.
SelectRow(index) ==
    /\ Loaded
    /\ selectedPresetIndex' = index
    /\ editingPreset' = presets[index + 1]
    /\ last' = Last("SelectRow")
    /\ UNCHANGED << presets, storageExists, storageLines, vanillaLines >>

\* A plausible slip: only the name is required.
HasName(preset) == Len(preset.name) > 0

\* !(editingPreset.name.empty() || editingPreset.loadoutCode.empty())
HasRequiredFields(preset) == Len(preset.name) > 0 /\ Len(preset.loadoutCode) > 0

\* The "Add / Update" button.  An exception of SaveToStorage leaves the
\* handler before selectedPresetIndex is assigned.
AddOrUpdateButton(env) ==
    /\ Loaded
    /\ IF ~HasRequiredFields(editingPreset)
       THEN /\ last' = Last("AddOrUpdateButton")
            /\ UNCHANGED << presets, storageExists, storageLines, selectedPresetIndex >>
       ELSE /\ Len(AddOrUpdatePreset(presets, editingPreset)) <= MaxPresets
            /\ presets' = AddOrUpdatePreset(presets, editingPreset)
            /\ storageExists' = StorageAfterSave(presets', env).exists
            /\ storageLines' = StorageAfterSave(presets', env).lines
            /\ selectedPresetIndex' = IF EnsureStorageDirectoryThrows(env) THEN selectedPresetIndex
                                      ELSE FindPresetIndex(presets', editingPreset.name)
            /\ last' = [Last("AddOrUpdateButton") EXCEPT !.write = WriteResult(env),
                                                         !.raised = EnsureStorageDirectoryThrows(env)]
    /\ UNCHANGED << vanillaLines, editingPreset >>

\* The "Reset form" button.
ResetForm ==
    /\ Loaded
    /\ editingPreset' = ResetEditingPreset
    /\ last' = Last("ResetForm")
    /\ UNCHANGED << presets, storageExists, storageLines, vanillaLines, selectedPresetIndex >>

\* The "Delete" button, shown while selectedPresetIndex >= 0.  An exception
\* of SaveToStorage leaves the handler before the selection is cleared.
DeleteButton(env) ==
    /\ Loaded
    /\ selectedPresetIndex >= 0
    /\ IF selectedPresetIndex < Len(presets)
       THEN /\ presets' = RemovePreset(presets, presets[selectedPresetIndex + 1].name)
            /\ storageExists' = StorageAfterSave(presets', env).exists
            /\ storageLines' = StorageAfterSave(presets', env).lines
            /\ selectedPresetIndex' = IF EnsureStorageDirectoryThrows(env) THEN selectedPresetIndex ELSE -1
            /\ editingPreset' = IF EnsureStorageDirectoryThrows(env) THEN editingPreset
                                ELSE ResetEditingPreset
            /\ last' = [Last("DeleteButton") EXCEPT !.write = WriteResult(env),
                                                    !.raised = EnsureStorageDirectoryThrows(env)]
       ELSE /\ last' = Last("DeleteButton")
            /\ UNCHANGED << presets, storageExists, storageLines, selectedPresetIndex, editingPreset >>
    /\ UNCHANGED vanillaLines

\* The "Import vanilla" buttons and the expandedpresets_import command.
ImportVanillaPresets(canOpen, env) ==
    /\ Loaded
    /\ presets' = VanillaPresets(presets, canOpen)
    /\ storageExists' = StorageAfterSave(presets', env).exists
    /\ storageLines' = StorageAfterSave(presets', env).lines
    /\ selectedPresetIndex' = IF EnsureStorageDirectoryThrows(env) THEN selectedPresetIndex ELSE -1
    /\ editingPreset' = IF EnsureStorageDirectoryThrows(env) THEN editingPreset ELSE ResetEditingPreset
    /\ last' = [Last("ImportVanillaPresets") EXCEPT !.write = WriteResult(env),
                                                    !.raised = EnsureStorageDirectoryThrows(env)]
    /\ UNCHANGED vanillaLines

\* The "Import catalog" button and the expandedpresets_import_bakkesplugins
\* command.
ImportCatalog(catalogExists, overwriteExisting) ==
    /\ Loaded
    /\ ImportBakkesPluginsCatalog(catalogExists, overwriteExisting)

\* The callbacks the host and the user drive after construction.
PluginNext ==
    \/ \E canRead \in (IF storageExists THEN BOOLEAN ELSE {FALSE}) :
           \E canOpen \in (IF canRead THEN {TRUE} ELSE BOOLEAN) :
               \E env \in (IF canRead THEN {"written"} ELSE SaveOutcomes) :
                   onLoad(canRead, canOpen, env)
    \/ \E env \in SaveOutcomes : SaveAll(env)
    \/ \E preset \in FormInputs : EditForm(preset)
    \/ \E index \in 0..(Len(presets) - 1) : SelectRow(index)
    \/ \E env \in SaveOutcomes : AddOrUpdateButton(env)
    \/ ResetForm
    \/ \E env \in SaveOutcomes : DeleteButton(env)
    \/ \E canOpen \in BOOLEAN, env \in SaveOutcomes : ImportVanillaPresets(canOpen, env)
    \/ \E catalogExists \in BOOLEAN, overwriteExisting \in BOOLEAN :
           ImportCatalog(catalogExists, overwriteExisting)

PluginSpec == PluginInit /\ [][PluginNext]_vars

\* ----------------------------------------------------------------- claims
InUnitRange(color) ==
    /\ color.r >= 0 /\ color.r <= Unit
    /\ color.g >= 0 /\ color.g <= Unit
    /\ color.b >= 0 /\ color.b <= Unit

\* Two channels that differ by at most half a thousandth.
ChannelsClose(x, y) == 2 * (IF x >= y THEN x - y ELSE y - x) <= Milli

ColorsClose(c, d) ==
    ChannelsClose(c.r, d.r) /\ ChannelsClose(c.g, d.g) /\ ChannelsClose(c.b, d.b)

\* Equality of two records in every field, colours to 3-decimal precision.
PresetsAgree(p, q) ==
    /\ p.name = q.name
    /\ p.loadoutCode = q.loadoutCode
    /\ p.customization.carLabel = q.customization.carLabel
    /\ p.customization.decalLabel = q.customization.decalLabel
    /\ p.customization.wheelsLabel = q.customization.wheelsLabel
    /\ p.customization.paintFinishMatte = q.customization.paintFinishMatte
    /\ p.customization.paintFinishPearlescent = q.customization.paintFinishPearlescent
    /\ ColorsClose(p.customization.primaryColor, q.customization.primaryColor)
    /\ ColorsClose(p.customization.accentColor, q.customization.accentColor)

CollectionsAgree(ps, qs) ==
    /\ Len(ps) = Len(qs)
    /\ \A i \in 1..Len(ps) : PresetsAgree(ps[i], qs[i])

\* The precondition of the round trip: non-empty name and loadout code,
\* every channel in [0,1].
RoundTripInput(ps) ==
    \A i \in 1..Len(ps) :
        /\ Len(ps[i].name) > 0
        /\ Len(ps[i].loadoutCode) > 0
        /\ InUnitRange(ps[i].customization.primaryColor)
        /\ InUnitRange(ps[i].customization.accentColor)

\* The collection a LoadFromStorage reads back from what a successful
\* SaveToStorage of ps wrote.
SavedThenLoaded(ps) == StoredPresets(<< >>, FileLines(SerializePresets(ps)))

\* C1 (as claimed): for every store whose records have a non-empty name and
\* loadout code and channels in [0,1], a successful SaveToStorage followed by
\* LoadFromStorage yields the same records, in the same order, equal in every
\* field (colours to within the 3-decimal precision).
C1_RoundTrip ==
    RoundTripInput(presets) => CollectionsAgree(SavedThenLoaded(presets), presets)

\* Text the persisted format carries unchanged: no field delimiter, no line
\* break, no leading or trailing whitespace.
PlainText(text) ==
    /\ \A i \in 1..Len(text) : text[i] \notin {"|", "\n"}
    /\ TrimWhitespace(text) = text

PlainPreset(p) ==
    /\ PlainText(p.name) /\ PlainText(p.loadoutCode)
    /\ p.name[1] # "#"
    /\ PlainText(p.customization.carLabel)
    /\ PlainText(p.customization.decalLabel)
    /\ PlainText(p.customization.wheelsLabel)

\* Supporting C1: the round trip does hold of the stores whose text fields
\* are plain, so the failures of C1_RoundTrip are those of unescaped text.
C1_RoundTripOfPlainText ==
    (RoundTripInput(presets) /\ \A i \in 1..Len(presets) : PlainPreset(presets[i]))
        => CollectionsAgree(SavedThenLoaded(presets), presets)
\* Names of the records of a collection.
NamesOf(ps) == { ps[i].name : i \in 1..Len(ps) }

\* C2: in every state reachable from the empty store through
\* LoadFromStorage, RefreshFromVanillaPresets, the catalog import,
\* AddOrUpdatePreset and RemovePreset, no two records have the same name.
C2_NamesUnique ==
    \A i \in 1..Len(presets) : \A j \in 1..Len(presets) :
        i # j => presets[i].name # presets[j].name

\* An upsert of a name the two-record store already held.
C2_Witness ==
    /\ last.op = "AddOrUpdatePreset"
    /\ last.sizeBefore = 2
    /\ Len(presets) = 2
    /\ last.preset.name \in NamesOf(presets)

\* C3: AddOrUpdatePreset(p) replaces the record named p.name at its index,
\* leaving the size and every other record unchanged, and appends p when no
\* record has that name, leaving the earlier records unchanged; a second
\* upsert of a name keeps the size and the position and stores its values.
C3_Upsert ==
    [][last'.op = "AddOrUpdatePreset" =>
        LET p == last'.preset
            index == FindPresetIndex(presets, p.name)
        IN /\ IF p.name \in NamesOf(presets)
              THEN /\ Len(presets') = Len(presets)
                   /\ presets'[index + 1] = p
                   /\ \A j \in 1..Len(presets) : j # index + 1 => presets'[j] = presets[j]
              ELSE /\ Len(presets') = Len(presets) + 1
                   /\ presets'[Len(presets')] = p
                   /\ \A j \in 1..Len(presets) : presets'[j] = presets[j]
           /\ (last.op = "AddOrUpdatePreset" /\ last.preset.name = p.name)
                 => /\ Len(presets') = Len(presets)
                    /\ FindPresetIndex(presets', p.name) = FindPresetIndex(presets, p.name)
                    /\ presets'[FindPresetIndex(presets', p.name) + 1] = p
    ]_vars

\* An update in place of the first of two records.
C3_Witness ==
    /\ last.op = "AddOrUpdatePreset"
    /\ last.sizeBefore = 2
    /\ Len(presets) = 2
    /\ presets[1] = last.preset
    /\ presets[2].name # last.preset.name

\* C4: the catalog import applies a record of the file when no record of
\* its name exists or when overwriteExisting is set, leaves an existing
\* record untouched otherwise, and returns the number of records it added or
\* overwrote (the catalog's names are distinct).
C4_ImportPolicy ==
    [][(last'.op = "ImportBakkesPluginsCatalog" /\ last'.opened) =>
        LET incoming == { CatalogRecords[k] : k \in 1..Len(CatalogRecords) }
            overwrite == last'.overwriteExisting
            known == { r \in incoming : r.name \in NamesOf(presets) }
        IN /\ Len(presets') = Len(presets) + Cardinality(incoming \ known)
           /\ \A i \in 1..Len(presets) :
                 presets'[i] = IF overwrite /\ \E r \in known : r.name = presets[i].name
                               THEN CHOOSE r \in known : r.name = presets[i].name
                               ELSE presets[i]
           /\ \A r \in incoming \ known : \E i \in (Len(presets) + 1)..Len(presets') : presets'[i] = r
           /\ last'.count = Cardinality(incoming \ known)
                            + (IF overwrite THEN Cardinality(known) ELSE 0)
    ]_vars

\* An import without overwrite that skipped the existing record "a" (its
\* loadout code is not the catalog's) and added the other one.
C4_Witness ==
    /\ last.op = "ImportBakkesPluginsCatalog" /\ last.opened
    /\ ~last.overwriteExisting
    /\ last.sizeBefore = 1
    /\ last.count = 1
    /\ Len(presets) = 2
    /\ presets[1].name = NameA
    /\ presets[1].loadoutCode # << "w" >>

\* C5: after RefreshFromVanillaPresets the collection holds only records
\* parsed from presets.data, each with the default customization; every
\* prior record whose name is not in the file is gone; the store is empty
\* when the file is missing or cannot be opened.
C5_VanillaReplaces ==
    [][last'.op = "RefreshFromVanillaPresets" =>
        /\ \A i \in 1..Len(presets') :
              /\ presets'[i].customization = DefaultCustomization
              /\ \E k \in 1..Len(VanillaFile) : ParseVanillaLine(VanillaFile[k]) = << presets'[i] >>
        /\ \A i \in 1..Len(presets) :
              presets[i].name \notin NamesOf(VanillaRecords)
                  => presets[i].name \notin NamesOf(presets')
        /\ (~last'.opened => presets' = << >>)
    ]_vars

\* A vanilla import into a store that held two records.
C5_Witness ==
    /\ last.op = "RefreshFromVanillaPresets" /\ last.opened
    /\ last.sizeBefore = 2
    /\ Len(presets) = 2
    /\ presets[2].name = << "T", " ", "G" >>

\* C6: LoadFromStorage on an absent or unreadable file leaves the result of
\* the vanilla import in memory and, the write succeeding, its serialisation
\* in the persisted file; on a present file it neither imports nor saves and
\* the collection is a function of the file's lines alone.
C6_LoadFallback ==
    /\ [](last.op = "LoadFromStorage" =>
            IF last.opened
            THEN /\ presets = AddAll(<< >>, ParseStorageLines(storageLines))
                 /\ last.write = "none"
            ELSE /\ \E canOpen \in BOOLEAN :
                        presets = IF canOpen THEN AddAll(<< >>, VanillaRecords) ELSE << >>
                 /\ last.write # "none"
                 /\ last.write = "ok" =>
                       /\ storageExists
                       /\ storageLines = FileLines(SerializePresets(presets)))
    /\ [][(last'.op = "LoadFromStorage" /\ (last'.opened \/ last'.write # "ok")) =>
            (storageExists' = storageExists /\ storageLines' = storageLines)]_vars

\* A fallback load, from a store that held records, whose save succeeded.
C6_Witness ==
    /\ last.op = "LoadFromStorage" /\ ~last.opened
    /\ last.write = "ok"
    /\ last.sizeBefore > 0
    /\ Len(presets) = 2
    /\ storageExists /\ Len(storageLines) = 2

\* C7 (as claimed): no operation of the store raises across its boundary.
C7_NothingRaises == ~last.raised

\* C8: SaveToStorage leaves the in-memory collection as it was, whether the
\* write succeeds or fails, and a successful write stores the serialisation
\* of that collection, one line per record in order.
C8_SaveKeepsRecords ==
    [][last'.op = "SaveToStorage" =>
        /\ presets' = presets
        /\ last'.write = "ok" =>
              /\ storageExists'
              /\ storageLines' = FileLines(SerializePresets(presets))
              /\ Len(storageLines') >= Len(presets)
    ]_vars

\* A save of two records that failed at the open, on a first run (no file).
C8_Witness ==
    /\ last.op = "SaveToStorage" /\ last.write = "failed"
    /\ Len(presets) = 2
    /\ ~storageExists

C10_LoadedColorsInRange ==
    last.op = "LoadFromStorage" =>
        \A i \in 1..Len(presets) :
            /\ InUnitRange(presets[i].customization.primaryColor)
            /\ InUnitRange(presets[i].customization.accentColor)

\* C11 (as claimed): in every state reachable through LoadFromStorage,
\* RefreshFromVanillaPresets and the editor's Add / Update, every stored
\* record has a non-empty name and a non-empty loadoutCode.
C11_KeyFieldsNonEmpty ==
    \A i \in 1..Len(presets) :
        Len(presets[i].name) > 0 /\ Len(presets[i].loadoutCode) > 0

\* A line that is neither blank nor a comment.
IsRecordLine(rawLine) ==
    LET line == TrimWhitespace(rawLine)
    IN Len(line) > 0 /\ line[1] # "#"

\* The record (none or one) of a text split at its last run of tab/space
\* characters: the name is the trimmed text before the run, the loadout code
\* the trimmed text after it; none when there is no tab/space or a part is
\* empty.
SplitAtLastRun(text) ==
    LET delimiters == { i \in 1..Len(text) : text[i] \in {"\t", " "} }
        runEnd == CHOOSE i \in delimiters : \A j \in delimiters : j <= i
        runStart == CHOOSE i \in 1..runEnd :
                        /\ \A j \in i..runEnd : text[j] \in {"\t", " "}
                        /\ i = 1 \/ text[i - 1] \notin {"\t", " "}
        name == TrimWhitespace(SubSeq(text, 1, runStart - 1))
        loadoutCode == TrimWhitespace(SubSeq(text, runEnd + 1, Len(text)))
    IN IF delimiters = { } THEN << >>
       ELSE IF Len(name) = 0 \/ Len(loadoutCode) = 0 THEN << >>
       ELSE << CustomPreset(name, loadoutCode) >>

\* The records of a presets.data whose record lines are split as they are.
RECURSIVE RecordsOfRawLines(_)
RecordsOfRawLines(lines) ==
    IF Len(lines) = 0 THEN << >>
    ELSE (IF IsRecordLine(Head(lines)) THEN SplitAtLastRun(Head(lines)) ELSE << >>)
         \o RecordsOfRawLines(Tail(lines))

\* The records of a presets.data whose record lines are split after their
\* leading and trailing whitespace is removed.
RECURSIVE RecordsOfTrimmedLines(_)
RecordsOfTrimmedLines(lines) ==
    IF Len(lines) = 0 THEN << >>
    ELSE (IF IsRecordLine(Head(lines)) THEN SplitAtLastRun(TrimWhitespace(Head(lines))) ELSE << >>)
         \o RecordsOfTrimmedLines(Tail(lines))

\* C12 (as claimed): for every non-comment, non-blank line of presets.data
\* the record name is the trimmed text before the last run of tab/space
\* characters of the line and the loadout code the trimmed text after it;
\* the line gives no record when it has no tab/space or a part is empty.
C12_VanillaLineSplit ==
    (last.op = "RefreshFromVanillaPresets" /\ last.opened)
        => presets = AddAll(<< >>, RecordsOfRawLines(vanillaLines))

\* C12 (amended): the same of the line with its leading and trailing
\* whitespace removed, so that trailing tabs or spaces are not the last run.
C12_TrimmedVanillaLineSplit ==
    (last.op = "RefreshFromVanillaPresets" /\ last.opened)
        => presets = AddAll(<< >>, RecordsOfTrimmedLines(vanillaLines))

\* A line whose name has an inner space: split at the last run only.
C12_Witness ==
    /\ last.op = "RefreshFromVanillaPresets" /\ last.opened
    /\ vanillaLines = << << "a", " ", "a", "\t", "a" >> >>
    /\ presets = << CustomPreset(<< "a", " ", "a" >>, << "a" >>) >>

\* Number of occurrences of character c in text.
CountChar(text, c) == Cardinality({ i \in 1..Len(text) : text[i] = c })

\* The fields of a text with k delimiters as claimed: k + 1 fields in order,
\* empty ones between consecutive delimiters and after a trailing one kept.
RECURSIVE FieldsClaimed(_, _)
FieldsClaimed(text, delim) ==
    LET p == FindChar(text, delim)
    IN IF p = 0 THEN << text >>
       ELSE << SubSeq(text, 1, p - 1) >> \o FieldsClaimed(SubSeq(text, p + 1, Len(text)), delim)

\* The lines of the persisted file LoadFromStorage hands to TokenizeLine.
TokenizedLines ==
    { TrimWhitespace(storageLines[k]) : k \in { j \in 1..Len(storageLines) : IsRecordLine(storageLines[j]) } }

\* C13 (as claimed): TokenizeLine on a line with k '|' delimiters returns
\* exactly k + 1 fields in order, empty fields between consecutive delimiters
\* and a trailing empty field (line "name|": two fields) preserved.
C13_FieldsPreserved ==
    (last.op = "LoadFromStorage" /\ last.opened) =>
        \A line \in TokenizedLines :
            /\ Len(TokenizeLine(line)) = CountChar(line, "|") + 1
            /\ TokenizeLine(line) = FieldsClaimed(line, "|")

\* Supporting C13: the fields are as claimed of every line that does not end
\* with the delimiter, so the failures are those of the trailing empty field.
C13_FieldsUnlessTrailingDelimiter ==
    (last.op = "LoadFromStorage" /\ last.opened) =>
        \A line \in TokenizedLines :
            line[Len(line)] # "|" => TokenizeLine(line) = FieldsClaimed(line, "|")

\* A line that, after trimming, is non-empty, does not start with '#' and
\* splits into at least 2 fields.
IsWellFormedLine(rawLine) ==
    IsRecordLine(rawLine) /\ Len(TokenizeLine(TrimWhitespace(rawLine))) >= 2

\* The records of the well-formed lines of a file, each a function of its
\* own line, in file order.
RECURSIVE RecordsOfWellFormedLines(_)
RecordsOfWellFormedLines(lines) ==
    IF Len(lines) = 0 THEN << >>
    ELSE (IF IsWellFormedLine(Head(lines)) THEN << ParseStorageLine(Head(lines))[1] >> ELSE << >>)
         \o RecordsOfWellFormedLines(Tail(lines))

C15_DuplicateNames ==
    (last.op = "LoadFromStorage" /\ last.opened) =>
        LET records == RecordsOfWellFormedLines(storageLines)
            LinesOf(name) == { k \in 1..Len(records) : records[k].name = name }
            FirstOf(name) == CHOOSE k \in LinesOf(name) : \A j \in LinesOf(name) : k <= j
            LastOf(name) == CHOOSE k \in LinesOf(name) : \A j \in LinesOf(name) : j <= k
        IN /\ NamesOf(presets) = NamesOf(records)
           /\ Len(presets) = Cardinality(NamesOf(records))
           /\ \A i \in 1..Len(presets) :
                 /\ presets[i] = records[LastOf(presets[i].name)]
                 /\ i = Cardinality({ records[k].name : k \in 1..FirstOf(presets[i].name) })

\* Name "a" on the first and the third line, another name between them.
C15_Witness ==
    /\ last.op = "LoadFromStorage" /\ last.opened
    /\ storageLines = << << "a", "|", "a" >>, << "b", "|", "a" >>, << "a", "|", "b" >> >>
    /\ Len(presets) = 2
    /\ presets[1] = CustomPreset(<< "a" >>, << "b" >>)

\* selectedPresetIndex is -1 or an index of the collection.
SelectionValid ==
    selectedPresetIndex = -1
    \/ (selectedPresetIndex >= 0 /\ selectedPresetIndex < Len(presets))

\* C16 (as claimed): after any sequence of editor and console actions,
\* selectedPresetIndex is -1 or a valid index smaller than the collection
\* size; after Add / Update with non-empty name and code it is the index of
\* the record named as the form; after Delete or vanilla import it is -1.
C16_SelectionValid ==
    /\ SelectionValid
    /\ (last.op = "AddOrUpdateButton" /\ HasRequiredFields(editingPreset)) =>
          /\ selectedPresetIndex >= 0 /\ selectedPresetIndex < Len(presets)
          /\ presets[selectedPresetIndex + 1].name = editingPreset.name
    /\ last.op \in { "DeleteButton", "ImportVanillaPresets" } => selectedPresetIndex = -1

\* Supporting C16: every step of the plugin that does not end in an
\* exception keeps the selection valid, so the failures of
\* C16_SelectionValid are those of a handler left by an exception of
\* SaveToStorage (C7).
C16_ValidUnlessRaised ==
    [][(SelectionValid /\ ~last'.raised) =>
          /\ SelectionValid'
          /\ (last'.op = "AddOrUpdateButton" /\ HasRequiredFields(editingPreset)) =>
                presets'[selectedPresetIndex' + 1].name = editingPreset.name
          /\ last'.op \in { "DeleteButton", "ImportVanillaPresets" } => selectedPresetIndex' = -1
    ]_vars

\* C17: Add / Update with valid fields, Delete of a valid selection and the
\* vanilla import call SaveToStorage after the mutation and before they
\* return, so that, the write succeeding, the persisted file is the
\* serialisation of the in-memory collection when the action has completed;
\* an Add / Update with an empty name or loadoutCode neither mutates the
\* collection nor saves.
C17_PersistAfterMutate ==
    /\ []((last.op \in { "AddOrUpdateButton", "DeleteButton", "ImportVanillaPresets" }
              /\ last.write = "ok") =>
            /\ storageExists
            /\ storageLines = FileLines(SerializePresets(presets)))
    /\ [][/\ last'.op = "AddOrUpdateButton" =>
                IF Len(editingPreset.name) = 0 \/ Len(editingPreset.loadoutCode) = 0
                THEN /\ presets' = presets
                     /\ storageExists' = storageExists /\ storageLines' = storageLines
                     /\ last'.write = "none"
                ELSE last'.write # "none"
          /\ (last'.op = "DeleteButton" /\ selectedPresetIndex < Len(presets)) =>
                /\ last'.write # "none"
                /\ Len(presets') = Len(presets) - 1
          /\ last'.op = "ImportVanillaPresets" => last'.write # "none"
       ]_vars

\* An accepted Add / Update that appended a record to a store whose file
\* held one record, and whose write succeeded.
C17_Witness ==
    /\ last.op = "AddOrUpdateButton" /\ last.write = "ok"
    /\ last.sizeBefore = 1
    /\ Len(presets) = 2
    /\ presets[2] = editingPreset
    /\ Len(storageLines) = 2

====
